---- MODULE Spec2Model ----
(***************************************************************************)
(* Model of tellopy/_internal/protocol.py: the Packet byte buffer and its  *)
(* framing (fixup), the FlightData bit-field decoder and the LogData       *)
(* telemetry stream scanner with its two sub-decoders.                     *)
(*                                                                         *)
(* Byte buffers are sequences over 0..255; Python's 0-based offsets are    *)
(* kept in the text and shifted by one at the point of access.  A Python   *)
(* exception is recorded by name in an error variable; the mutations made  *)
(* before the raising statement stay in place, as they do in Python.       *)
(***************************************************************************)
EXTENDS Integers, Sequences, FiniteSets, TLC

\* ------------------------------------------------------------------------
\* Bounds of the model
\* ------------------------------------------------------------------------
MaxAppends == 3
MaxFixups == 2
MaxUpdates == 2

\* ------------------------------------------------------------------------
\* Program constants
\* ------------------------------------------------------------------------
START_OF_PACKET == 204
TAKEOFF_CMD == 84
FLATTRIM_CMD == 4180
DefaultPktType == 104
SYNC == 85
ID_NEW_MVO_FEEDBACK == 29
ID_IMU_ATTI == 2048

\* ------------------------------------------------------------------------
\* State
\* ------------------------------------------------------------------------
VARIABLES
  \* --- a Packet object
  buf,        \* Packet.buf
  perr,       \* exception raised by the last Packet operation, or "none"
  kind,       \* "cmd": built from a command id, "raw": wraps given bytes
  appended,   \* the bytes appended since construction
  nappend,    \* number of add_* calls since construction
  nfix,       \* number of fixup calls since construction
  lastop,     \* the last Packet operation
  prelen,     \* len(buf) when the last fixup was entered
  \* --- a FlightData object
  fdata,      \* the payload handed to FlightData(data)
  fd,         \* the fields of the FlightData object
  fdone,      \* TRUE once the constructor has run
  \* --- the LogData sessions
  count,      \* LogData.count of each session
  mvo,        \* LogData.mvo of each session
  imu,        \* LogData.imu of each session
  unknowns,   \* LogData.unknowns, the list held by the class
  logs,       \* ids of the log.info diagnostics each session's log received
  pc,         \* "idle", or "scan" while an update call is in its loop
  cur,        \* the session whose update runs or ran last
  sdata,      \* the stream (data) of that call
  pos,        \* its scan position
  result,     \* how it ended: "ok", the exception raised, "none" so far
  visited,    \* the positions its loop has processed
  consumed,   \* the sum of the record lengths it has advanced by
  pre,        \* count, mvo and imu of the session when it was entered
  nunk,       \* per session and unknown id: records processed, up to 2
  nupd        \* number of update calls made

pvars == << buf, perr, kind, appended, nappend, nfix, lastop, prelen >>

fvars == << fdata, fd, fdone >>

lvars == << count, mvo, imu, unknowns, logs, pc, cur, sdata, pos, result,
            visited, consumed, pre, nunk, nupd >>

vars == << pvars, fvars, lvars >>

\* ------------------------------------------------------------------------
\* Byte helpers
\* ------------------------------------------------------------------------
\* Python's  v & 0xff  on an unbounded integer (two's complement)
Lo8(v) == v % 256

\* Python's  v >> 8  (floor division, also for negative v)
Shr8(v) == v \div 256

\* 0-based read of a buffer
At(b, i) == b[i + 1]

\* 0-based slice b[lo:hi] for 0 <= lo, hi (clamped to the buffer)
Cut(b, lo, hi) ==
  LET h == IF hi > Len(b) THEN Len(b) ELSE hi
  IN  IF lo >= h THEN << >> ELSE SubSeq(b, lo + 1, h)

\* utils.le16: the two bytes of a 16-bit value, low byte first
le16(val) == << Lo8(val), Lo8(Shr8(val)) >>

\* crc.crc8 / crc.crc16: the checksum primitives are supplied from outside
\* the modelled file.  They are modelled as seeded, order-sensitive
\* functions of every byte of their argument, of width 8 and 16 bits.
\* CrcFold is the fold  acc' = (acc * mult + byte + 1) mod 256  over
\* b[lo..hi], computed by halving the range: v is the fold from 0 and p is
\* mult^(hi-lo+1).
RECURSIVE CrcFold(_, _, _, _)
CrcFold(b, lo, hi, mult) ==
  IF lo > hi THEN [v |-> 0, p |-> 1]
  ELSE IF lo = hi THEN [v |-> (b[lo] + 1) % 256, p |-> mult % 256]
  ELSE
    LET mid == (lo + hi) \div 2
        l == CrcFold(b, lo, mid, mult)
        r == CrcFold(b, mid + 1, hi, mult)
    IN  [v |-> (l.v * r.p + r.v) % 256, p |-> (l.p * r.p) % 256]

Checksum(b, seed, mult) ==
  LET f == CrcFold(b, 1, Len(b), mult)
  IN  (seed * f.p + f.v) % 256

crc8(b) == Checksum(b, 119, 31)

crc16(b) == Checksum(b, 54, 29) * 256 + Checksum(b, 146, 13)

\* ------------------------------------------------------------------------
\* Packet
\* ------------------------------------------------------------------------
\* Packet.__init__ with an integer cmd: the 9-byte header skeleton
new_command(cmd, pkt_type) ==
  << START_OF_PACKET, 0, 0, 0, pkt_type, Lo8(cmd), Lo8(Shr8(cmd)), 0, 0 >>

\* Packet.__init__ with a bytes / bytearray / str argument: verbatim copy
from_raw(bytes) == bytes

\* Packet.add_byte
add_byte(b, val) == Append(b, Lo8(val))

\* Packet.add_int16
add_int16(b, val) == add_byte(add_byte(b, val), Shr8(val))

\* Packet.add_time; ms stands for int(time.microsecond/1000)
add_time(b, t) ==
  LET b1 == add_int16(b, t.hour)
      b2 == add_int16(b1, t.minute)
      b3 == add_int16(b2, t.second)
      b4 == add_int16(b3, Lo8(t.ms))
  IN  add_int16(b4, Lo8(Shr8(t.ms)))

\* Packet.get_data: buf[9:len(buf)-2]; a negative end counts from the end
\* of the buffer and is clamped at 0
get_data(b) ==
  LET e == Len(b) - 2
      hi == IF e < 0 THEN (IF e + Len(b) < 0 THEN 0 ELSE e + Len(b)) ELSE e
  IN  Cut(b, 9, hi)

\* buf[1] = (buf[1] << 3): the value stored into the bytearray element
ShiftLenByte(v) == v * 8

\* Packet.fixup.  The result is the buffer as the call leaves it and the
\* exception it raised ("none" when it returned).  A bytearray element
\* assignment raises IndexError past the end and ValueError for a value
\* outside 0..255.
fixup(b, seq_num) ==
  IF Len(b) = 0 THEN [buf |-> b, err |-> "IndexError"]
  ELSE IF At(b, 0) # START_OF_PACKET THEN [buf |-> b, err |-> "none"]
  ELSE
    LET l16 == le16(Len(b) + 2)
    IN
    IF Len(b) < 2 THEN [buf |-> b, err |-> "IndexError"]
    ELSE
      LET b1 == [b EXCEPT ![2] = l16[1]]
      IN
      IF Len(b) < 3 THEN [buf |-> b1, err |-> "IndexError"]
      ELSE
        LET b2 == [b1 EXCEPT ![3] = l16[2]]
            sh == ShiftLenByte(At(b2, 1))
        IN
        IF sh > 255 THEN [buf |-> b2, err |-> "ValueError"]
        ELSE
          LET b3 == [b2 EXCEPT ![2] = sh]
          IN
          IF Len(b) < 4 THEN [buf |-> b3, err |-> "IndexError"]
          ELSE
            LET b4 == [b3 EXCEPT ![4] = crc8(Cut(b3, 0, 3))]
                s16 == le16(seq_num)
            IN
            IF Len(b) < 8 THEN [buf |-> b4, err |-> "IndexError"]
            ELSE
              LET b5 == [b4 EXCEPT ![8] = s16[1]]
              IN
              IF Len(b) < 9 THEN [buf |-> b5, err |-> "IndexError"]
              ELSE
                LET b6 == [b5 EXCEPT ![9] = s16[2]]
                IN  [buf |-> add_int16(b6, crc16(b6)), err |-> "none"]

\* --- inputs of the packet operations
CmdIds == {TAKEOFF_CMD, FLATTRIM_CMD}
PktTypes == {DefaultPktType, 72}
ByteVals == {7, 421}
Int16Vals == {4660, -2}
SeqNums == {0, 513}
Times == {[hour |-> 23, minute |-> 59, second |-> 58, ms |-> 999]}

\* a raw buffer of n bytes: first byte b0, then the bytes 1, 2, ... mod 256
RawBuf(b0, n) == [i \in 1..n |-> IF i = 1 THEN b0 ELSE (i - 1) % 256]

RawLens == {0, 1, 2, 3, 5, 8, 9, 12, 30, 254, 260}
RawInputs == {RawBuf(START_OF_PACKET, n) : n \in RawLens}
               \cup {RawBuf(99, 7)}

\* Packet(cmd, pkt_type) with an integer cmd
NewCommand ==
  /\ \E c \in CmdIds, t \in PktTypes : buf' = new_command(c, t)
  /\ kind' = "cmd"
  /\ perr' = "none"
  /\ appended' = << >>
  /\ nappend' = 0
  /\ nfix' = 0
  /\ lastop' = "init"
  /\ prelen' = 0
  /\ UNCHANGED << fvars, lvars >>

\* Packet(bytes)
FromRaw ==
  /\ \E r \in RawInputs : buf' = from_raw(r)
  /\ kind' = "raw"
  /\ perr' = "none"
  /\ appended' = << >>
  /\ nappend' = 0
  /\ nfix' = 0
  /\ lastop' = "init"
  /\ prelen' = 0
  /\ UNCHANGED << fvars, lvars >>

\* the bytes b holds behind the first n
Added(b, n) == SubSeq(b, n + 1, Len(b))

\* Packet.add_byte(val)
AddByte ==
  /\ nappend < MaxAppends
  /\ \E v \in ByteVals : buf' = add_byte(buf, v)
  /\ appended' = appended \o Added(buf', Len(buf))
  /\ nappend' = nappend + 1
  /\ perr' = "none"
  /\ lastop' = "add_byte"
  /\ UNCHANGED << kind, nfix, prelen >>
  /\ UNCHANGED << fvars, lvars >>

\* Packet.add_int16(val)
AddInt16 ==
  /\ nappend < MaxAppends
  /\ \E v \in Int16Vals : buf' = add_int16(buf, v)
  /\ appended' = appended \o Added(buf', Len(buf))
  /\ nappend' = nappend + 1
  /\ perr' = "none"
  /\ lastop' = "add_int16"
  /\ UNCHANGED << kind, nfix, prelen >>
  /\ UNCHANGED << fvars, lvars >>

\* Packet.add_time(time)
AddTime ==
  /\ nappend < MaxAppends
  /\ \E t \in Times : buf' = add_time(buf, t)
  /\ appended' = appended \o Added(buf', Len(buf))
  /\ nappend' = nappend + 1
  /\ perr' = "none"
  /\ lastop' = "add_time"
  /\ UNCHANGED << kind, nfix, prelen >>
  /\ UNCHANGED << fvars, lvars >>

\* Packet.fixup(seq_num)
Fixup ==
  /\ nfix < MaxFixups
  /\ \E s \in SeqNums :
       LET r == fixup(buf, s)
       IN  /\ buf' = r.buf
           /\ perr' = r.err
  /\ nfix' = nfix + 1
  /\ prelen' = Len(buf)
  /\ lastop' = "fixup"
  /\ UNCHANGED << kind, appended, nappend >>
  /\ UNCHANGED << fvars, lvars >>

PacketNext == NewCommand \/ FromRaw \/ AddByte \/ AddInt16 \/ AddTime \/ Fixup

\* ------------------------------------------------------------------------
\* FlightData
\* ------------------------------------------------------------------------
\* (v >> k) & 0x1
Bit(v, k) == (v \div (2 ^ k)) % 2

\* utils.int16: the signed 16-bit value of two bytes, low byte first
int16(val0, val1) ==
  LET u == Lo8(val0) + 256 * Lo8(val1)
  IN  IF u >= 32768 THEN u - 65536 ELSE u

\* variant: wind_state taken from the unused bit 6
wind_state_of_bit6(data) == Bit(At(data, 10), 6)

\* self.wind_state = ((data[10] >> 7) & 0x1)
wind_state_of(data) == Bit(At(data, 10), 7)

\* the field values assigned before the length test
FlightDefaults ==
  [ battery_low |-> 0, battery_lower |-> 0, battery_percentage |-> 0,
    battery_state |-> 0, camera_state |-> 0, down_visual_state |-> 0,
    drone_battery_left |-> 0, drone_fly_time_left |-> 0, drone_hover |-> 0,
    em_open |-> 0, em_sky |-> 0, em_ground |-> 0, east_speed |-> 0,
    electrical_machinery_state |-> 0, factory_mode |-> 0, fly_mode |-> 0,
    fly_speed |-> 0, fly_time |-> 0, front_in |-> 0, front_lsc |-> 0,
    front_out |-> 0, gravity_state |-> 0, vertical_speed |-> 0, height |-> 0,
    imu_calibration_state |-> 0, imu_state |-> 0, light_strength |-> 0,
    north_speed |-> 0, outage_recording |-> 0, power_state |-> 0,
    pressure_state |-> 0, smart_video_exit_mode |-> 0,
    temperature_height |-> 0, throw_fly_timer |-> 0, wifi_disturb |-> 0,
    wifi_strength |-> 0, wind_state |-> 0 ]

\* FlightData.__init__
FlightData(data) ==
  IF Len(data) < 24 THEN FlightDefaults
  ELSE
    [ FlightDefaults EXCEPT
        !.height = int16(At(data, 0), At(data, 1)),
        !.north_speed = int16(At(data, 2), At(data, 3)),
        !.east_speed = int16(At(data, 4), At(data, 5)),
        !.vertical_speed = int16(At(data, 6), At(data, 7)),
        !.fly_time = int16(At(data, 8), At(data, 9)),
        !.imu_state = Bit(At(data, 10), 0),
        !.pressure_state = Bit(At(data, 10), 1),
        !.down_visual_state = Bit(At(data, 10), 2),
        !.power_state = Bit(At(data, 10), 3),
        !.battery_state = Bit(At(data, 10), 4),
        !.gravity_state = Bit(At(data, 10), 5),
        !.wind_state = wind_state_of(data),
        !.imu_calibration_state = At(data, 11),
        !.battery_percentage = At(data, 12),
        !.drone_fly_time_left = int16(At(data, 13), At(data, 14)),
        !.drone_battery_left = int16(At(data, 15), At(data, 16)),
        !.em_sky = Bit(At(data, 17), 0),
        !.em_ground = Bit(At(data, 17), 1),
        !.em_open = Bit(At(data, 17), 2),
        !.drone_hover = Bit(At(data, 17), 3),
        !.outage_recording = Bit(At(data, 17), 4),
        !.battery_low = Bit(At(data, 17), 5),
        !.battery_lower = Bit(At(data, 17), 6),
        !.factory_mode = Bit(At(data, 17), 7),
        !.fly_mode = At(data, 18),
        !.throw_fly_timer = At(data, 19),
        !.camera_state = At(data, 20),
        !.electrical_machinery_state = At(data, 21),
        !.front_in = Bit(At(data, 22), 0),
        !.front_out = Bit(At(data, 22), 1),
        !.front_lsc = Bit(At(data, 22), 2),
        !.temperature_height = Bit(At(data, 23), 0) ]

\* --- status payloads fed to the decoder
StatusExample ==
  << 10, 0, 5, 0, 0, 0, 0, 0, 100, 0, 17, 5, 50, 0, 0, 0, 0, 5, 2, 3, 7, 1,
     3, 1 >>

StatusBases ==
  { StatusExample,
    [i \in 1..24 |-> 0],
    [i \in 1..24 |-> 255],
    [i \in 1..27 |-> (i * 37) % 256] }

StatusVaried ==
  { [b EXCEPT ![o + 1] = v] :
      b \in StatusBases, o \in {10, 11, 12, 17, 18, 19, 20, 21, 22, 23},
      v \in 0..255 }

StatusTails ==
  { StatusExample \o t : t \in {<< 0 >>, << 255 >>, << 1, 2, 3 >>} }

StatusShort == { SubSeq(StatusExample, 1, n) : n \in {0, 1, 23} }

StatusInputs == StatusVaried \cup StatusTails \cup StatusShort



\* FlightData(data)
Decode ==
  /\ ~fdone
  /\ fd' = FlightData(fdata)
  /\ fdone' = TRUE
  /\ UNCHANGED fdata
  /\ UNCHANGED << pvars, lvars >>

FlightNext == Decode

\* ------------------------------------------------------------------------
\* LogData and its sub-decoders
\* ------------------------------------------------------------------------
\* Python's index normalisation: a negative index counts from the end
PyIdx(n, i) == IF i < 0 THEN i + n ELSE i

\* d[i] does not raise IndexError
IndexOK(d, i) ==
  LET j == PyIdx(Len(d), i)
  IN  j >= 0 /\ j < Len(d)

\* d[i] with Python's index rule
Get(d, i) == d[PyIdx(Len(d), i) + 1]

\* struct.unpack_from(fmt, d, off) finds size bytes at off (a negative off
\* counts from the end); otherwise it raises struct.error
UnpackOK(d, off, size) ==
  LET o == PyIdx(Len(d), off)
  IN  o >= 0 /\ Len(d) - o >= size

\* the unsigned little-endian value of the size bytes unpack_from reads
RECURSIVE UnpackLE(_, _, _)
UnpackLE(d, off, size) ==
  LET o == PyIdx(Len(d), off)
  IN  IF size = 0 THEN 0
      ELSE d[o + 1] + 256 * UnpackLE(d, o + 1, size - 1)

\* struct format 'h': signed 16 bits
unpack_h(d, off) ==
  LET u == UnpackLE(d, off, 2)
  IN  IF u >= 32768 THEN u - 65536 ELSE u

\* struct format 'H': unsigned 16 bits
unpack_H(d, off) == UnpackLE(d, off, 2)

\* struct format 'f': a 32-bit float, represented by its IEEE-754 bit
\* pattern read as an unsigned little-endian word split in two 16-bit
\* halves << low, high >>
unpack_f(d, off) == << UnpackLE(d, off, 2), UnpackLE(d, off + 2, 2) >>

\* Python's slice d[a:b]: negative ends count from the end, both ends are
\* clamped to the buffer, an empty range gives an empty sequence
PySlice(d, a, b) ==
  LET n == Len(d)
      na == IF a < 0 THEN (IF a + n < 0 THEN 0 ELSE a + n)
            ELSE (IF a > n THEN n ELSE a)
      nb == IF b < 0 THEN (IF b + n < 0 THEN 0 ELSE b + n)
            ELSE (IF b > n THEN n ELSE b)
  IN  IF na >= nb THEN << >> ELSE SubSeq(d, na + 1, nb)

\* x ^ y on bytes
RECURSIVE XorBits(_, _, _)
XorBits(x, y, k) ==
  IF k = 0 THEN 0
  ELSE (((x % 2) + (y % 2)) % 2) + 2 * XorBits(x \div 2, y \div 2, k - 1)

Xor8(x, y) == XorBits(x, y, 8)

\* LogData.update, lines 232-245: the header reads and the de-obfuscated
\* payload of the record at pos, or the exception the first failing
\* statement raises
ReadRecord(d, p) ==
  LET bad(e) == [err |-> e, length |-> 0, id |-> 0, payload |-> << >>]
  IN
  IF ~UnpackOK(d, p, 1) THEN bad("StructError")
  ELSE IF UnpackLE(d, p, 1) # SYNC THEN bad("Corrupt")
  ELSE IF ~UnpackOK(d, p + 1, 2) THEN bad("StructError")
  ELSE IF ~IndexOK(d, p + 3) THEN bad("IndexError")
  ELSE IF ~UnpackOK(d, p + 4, 2) THEN bad("StructError")
  ELSE IF ~IndexOK(d, p + 6) THEN bad("IndexError")
  ELSE
    LET length == unpack_h(d, p + 1)
        xorval == Get(d, p + 6)
        enc == PySlice(d, p + 10, p + 10 + length - 12)
    IN  [ err |-> "none",
          length |-> length,
          id |-> unpack_H(d, p + 4),
          payload |-> [i \in 1..Len(enc) |-> Xor8(enc[i], xorval)] ]

\* the state of a LogNewMvoFeedback after __init__.  A velocity is held in
\* hundredths (the integer that update divides by 100.0), a float by its
\* bit pattern.
F0 == << 0, 0 >>

MvoInit == [count |-> 0, vel |-> << 0, 0, 0 >>, pos |-> << F0, F0, F0 >>]

\* the state of a LogImuAtti after __init__
ImuInit ==
  [ count |-> 0, acc |-> << F0, F0, F0 >>, gyro |-> << F0, F0, F0 >>,
    q |-> << F0, F0, F0, F0 >>, vg |-> << F0, F0, F0 >> ]

\* three floats at off
unpack_fff(d, off) ==
  << unpack_f(d, off), unpack_f(d, off + 4), unpack_f(d, off + 8) >>

\* variant: the position floats read right behind the velocities
mvo_update_pos_at_6(m, pl, cnt) ==
  LET m1 == [m EXCEPT !.count = cnt]
  IN
  IF ~UnpackOK(pl, 2, 6) THEN [st |-> m1, err |-> "StructError"]
  ELSE
    LET m2 == [m1 EXCEPT !.vel = << unpack_h(pl, 2), unpack_h(pl, 4),
                                    unpack_h(pl, 6) >>]
    IN
    IF ~UnpackOK(pl, 6, 12) THEN [st |-> m2, err |-> "StructError"]
    ELSE [st |-> [m2 EXCEPT !.pos = unpack_fff(pl, 6)], err |-> "none"]

\* LogNewMvoFeedback.update: the object as the call leaves it and the
\* exception it raised.  Each tuple assignment happens only when its
\* unpack_from succeeded.
mvo_update(m, pl, cnt) ==
  LET m1 == [m EXCEPT !.count = cnt]
  IN
  IF ~UnpackOK(pl, 2, 6) THEN [st |-> m1, err |-> "StructError"]
  ELSE
    LET m2 == [m1 EXCEPT !.vel = << unpack_h(pl, 2), unpack_h(pl, 4),
                                    unpack_h(pl, 6) >>]
    IN
    IF ~UnpackOK(pl, 8, 12) THEN [st |-> m2, err |-> "StructError"]
    ELSE [st |-> [m2 EXCEPT !.pos = unpack_fff(pl, 8)], err |-> "none"]

\* LogImuAtti.update
imu_update(m, pl, cnt) ==
  LET m1 == [m EXCEPT !.count = cnt]
  IN
  IF ~UnpackOK(pl, 20, 12) THEN [st |-> m1, err |-> "StructError"]
  ELSE
    LET m2 == [m1 EXCEPT !.acc = unpack_fff(pl, 20)]
    IN
    IF ~UnpackOK(pl, 32, 12) THEN [st |-> m2, err |-> "StructError"]
    ELSE
      LET m3 == [m2 EXCEPT !.gyro = unpack_fff(pl, 32)]
      IN
      IF ~UnpackOK(pl, 48, 16) THEN [st |-> m3, err |-> "StructError"]
      ELSE
        LET m4 == [m3 EXCEPT !.q = << unpack_f(pl, 48), unpack_f(pl, 52),
                                      unpack_f(pl, 56), unpack_f(pl, 60) >>]
        IN
        IF ~UnpackOK(pl, 76, 12) THEN [st |-> m4, err |-> "StructError"]
        ELSE [st |-> [m4 EXCEPT !.vg = unpack_fff(pl, 76)], err |-> "none"]

\* the branch taken at lines 246-250
Dispatch(id) ==
  IF id = ID_NEW_MVO_FEEDBACK THEN "mvo"
  ELSE IF id = ID_IMU_ATTI THEN "imu"
  ELSE "unknown"

\* variant: the membership test left out
NotReported_always(unk, id) == TRUE

\* not id in self.unknowns
NotReported(unk, id) == \A i \in 1..Len(unk) : unk[i] # id

\* the loop condition  pos < len(data) - 2
InLoop(p, d) == p < Len(d) - 2

\* variant: only a scan that stopped short is reported
final_check_short_only(p, d) == IF p < Len(d) - 2 THEN "Corrupt" ELSE "ok"

\* lines 256-258: the test after the loop
final_check(p, d) == IF p # Len(d) - 2 THEN "Corrupt" ELSE "ok"

\* pos += length
advance(p, length) == p + length

\* --- telemetry streams fed to update
Pat(n, k) == [i \in 1..n |-> (i * k + 3) % 256]

\* a record: sync, declared length, checksum byte, id, four tick bytes of
\* which the first is the xor key, the obfuscated payload, two crc bytes
Rec(length, id, key, plain) ==
  << SYNC, Lo8(length), Lo8(Shr8(length)), 0, Lo8(id), Lo8(Shr8(id)),
     key, 0, 0, 0 >>
    \o [i \in 1..Len(plain) |-> Xor8(plain[i], key)]
    \o << 0, 0 >>

MvoA == Rec(32, ID_NEW_MVO_FEEDBACK, 90, Pat(20, 7))
MvoB == Rec(32, ID_NEW_MVO_FEEDBACK, 0, Pat(20, 11))
MvoShort == Rec(24, ID_NEW_MVO_FEEDBACK, 0, Pat(12, 5))
ImuA == Rec(100, ID_IMU_ATTI, 165, Pat(88, 3))
ImuShort == Rec(62, ID_IMU_ATTI, 0, Pat(50, 9))
Unk1 == Rec(12, 1, 0, << >>)
Unk7 == Rec(16, 7, 33, Pat(4, 1))
ZeroLen == Rec(0, 1, 0, << >>)
NegLen == Rec(-12, 7, 0, << >>)
BigLen == Rec(100, 1, 0, << >>)
BadSync == [MvoA EXCEPT ![1] = 0]
Trailer == << 0, 0 >>

Streams ==
  { << >>,
    Trailer,
    MvoA \o Trailer,
    MvoA \o MvoB \o Trailer,
    MvoB \o ImuA \o Trailer,
    Unk1 \o Trailer,
    Unk1 \o Unk7 \o Unk1 \o Trailer,
    Unk7 \o MvoA \o Trailer,
    MvoA \o BadSync \o Trailer,
    MvoA \o MvoShort \o Trailer,
    ImuA \o ImuShort \o Trailer,
    MvoB \o Trailer \o << 0 >>,
    MvoB \o << 0 >>,
    ZeroLen \o Trailer,
    Unk1 \o NegLen \o Trailer,
    NegLen \o Trailer,
    BigLen \o Trailer,
    SubSeq(Unk1, 1, 5),
    SubSeq(Unk1, 1, 6),
    SubSeq(Unk7, 1, 3) }

Sessions == {"A", "B"}

\* ------------------------------------------------------------------------
\* LogData operations.  update may not return (a record may declare a
\* length that sends the scan back to a position it came from), so it is
\* modelled as the call, one step per loop iteration, and the loop exit;
\* while it runs (pc = "scan") no other operation is enabled.
\* ------------------------------------------------------------------------
\* number of records with an id counted so far
Seen(f, id) == IF id \in DOMAIN f THEN f[id] ELSE 0


\* LogData.update, lines 224-230: the call on session s with stream d
Update ==
  /\ pc = "idle"
  /\ nupd < MaxUpdates
  /\ \E s \in Sessions, d \in Streams :
       /\ cur' = s
       /\ sdata' = d
       /\ count' = [count EXCEPT ![s] = count[s] + 1]
       /\ pre' = [count |-> count[s], mvo |-> mvo[s], imu |-> imu[s]]
  /\ pos' = 0
  /\ pc' = "scan"
  /\ result' = "none"
  /\ visited' = {}
  /\ consumed' = 0
  /\ nupd' = nupd + 1
  /\ UNCHANGED << mvo, imu, unknowns, logs, nunk >>
  /\ UNCHANGED << pvars, fvars >>

Raise(e) ==
  /\ pc' = "idle"
  /\ result' = e
  /\ UNCHANGED << pos, consumed >>

Continue(length) ==
  /\ pc' = "scan"
  /\ result' = "none"
  /\ pos' = advance(pos, length)
  /\ consumed' = consumed + length

\* LogData.update, lines 231-255: one iteration of the loop
ScanStep ==
  /\ pc = "scan"
  /\ InLoop(pos, sdata)
  /\ visited' = visited \cup {pos}
  /\ LET r == ReadRecord(sdata, pos)
         to == Dispatch(r.id)
     IN
     IF r.err # "none"
     THEN /\ Raise(r.err)
          /\ UNCHANGED << mvo, imu, unknowns, logs, nunk >>
     ELSE IF to = "mvo"
     THEN LET u == mvo_update(mvo[cur], r.payload, count[cur])
          IN  /\ mvo' = [mvo EXCEPT ![cur] = u.st]
              /\ IF u.err # "none" THEN Raise(u.err) ELSE Continue(r.length)
              /\ UNCHANGED << imu, unknowns, logs, nunk >>
     ELSE IF to = "imu"
     THEN LET u == imu_update(imu[cur], r.payload, count[cur])
          IN  /\ imu' = [imu EXCEPT ![cur] = u.st]
              /\ IF u.err # "none" THEN Raise(u.err) ELSE Continue(r.length)
              /\ UNCHANGED << mvo, unknowns, logs, nunk >>
     ELSE /\ IF NotReported(unknowns, r.id)
             THEN /\ logs' = [logs EXCEPT ![cur] = Append(logs[cur], r.id)]
                  /\ unknowns' = Append(unknowns, r.id)
             ELSE UNCHANGED << logs, unknowns >>
          /\ nunk' = [nunk EXCEPT ![cur] =
                        (r.id :> (IF Seen(nunk[cur], r.id) < 2
                                  THEN Seen(nunk[cur], r.id) + 1 ELSE 2))
                          @@ nunk[cur]]
          /\ Continue(r.length)
          /\ UNCHANGED << mvo, imu >>
  /\ UNCHANGED << count, cur, sdata, pre, nupd >>
  /\ UNCHANGED << pvars, fvars >>

\* LogData.update, lines 256-258: the loop has ended
ScanExit ==
  /\ pc = "scan"
  /\ ~InLoop(pos, sdata)
  /\ pc' = "idle"
  /\ result' = final_check(pos, sdata)
  /\ UNCHANGED << count, mvo, imu, unknowns, logs, cur, sdata, pos, visited,
                  consumed, pre, nunk, nupd >>
  /\ UNCHANGED << pvars, fvars >>

LogNext == Update \/ ScanStep \/ ScanExit


\* ------------------------------------------------------------------------
\* Specifications
\* ------------------------------------------------------------------------
\* a Packet just built from a command id; no FlightData under
\* construction; two LogData sessions just constructed
InitPacket ==
  /\ \E c \in CmdIds : buf = new_command(c, DefaultPktType)
  /\ perr = "none"
  /\ kind = "cmd"
  /\ appended = << >>
  /\ nappend = 0
  /\ nfix = 0
  /\ lastop = "init"
  /\ prelen = 0
  /\ fdata = << >>
  /\ fd = FlightDefaults
  /\ fdone = TRUE
  /\ count = [s \in Sessions |-> 0]
  /\ mvo = [s \in Sessions |-> MvoInit]
  /\ imu = [s \in Sessions |-> ImuInit]
  /\ unknowns = << >>
  /\ logs = [s \in Sessions |-> << >>]
  /\ pc = "idle"
  /\ cur = "A"
  /\ sdata = << >>
  /\ pos = 0
  /\ result = "none"
  /\ visited = {}
  /\ consumed = 0
  /\ pre = [count |-> 0, mvo |-> MvoInit, imu |-> ImuInit]
  /\ nunk = [s \in Sessions |-> << >>]
  /\ nupd = 0

\* a status payload about to be decoded; an empty Packet; two LogData
\* sessions just constructed
InitFlight ==
  /\ fdata \in StatusInputs
  /\ fd = FlightDefaults
  /\ fdone = FALSE
  /\ buf = << >>
  /\ perr = "none"
  /\ kind = "raw"
  /\ appended = << >>
  /\ nappend = 0
  /\ nfix = 0
  /\ lastop = "init"
  /\ prelen = 0
  /\ count = [s \in Sessions |-> 0]
  /\ mvo = [s \in Sessions |-> MvoInit]
  /\ imu = [s \in Sessions |-> ImuInit]
  /\ unknowns = << >>
  /\ logs = [s \in Sessions |-> << >>]
  /\ pc = "idle"
  /\ cur = "A"
  /\ sdata = << >>
  /\ pos = 0
  /\ result = "none"
  /\ visited = {}
  /\ consumed = 0
  /\ pre = [count |-> 0, mvo |-> MvoInit, imu |-> ImuInit]
  /\ nunk = [s \in Sessions |-> << >>]
  /\ nupd = 0

\* two LogData sessions just constructed with data = None, which share the
\* class attribute unknowns; an empty Packet; no FlightData under
\* construction
InitLog ==
  /\ count = [s \in Sessions |-> 0]
  /\ mvo = [s \in Sessions |-> MvoInit]
  /\ imu = [s \in Sessions |-> ImuInit]
  /\ unknowns = << >>
  /\ logs = [s \in Sessions |-> << >>]
  /\ pc = "idle"
  /\ cur = "A"
  /\ sdata = << >>
  /\ pos = 0
  /\ result = "none"
  /\ visited = {}
  /\ consumed = 0
  /\ pre = [count |-> 0, mvo |-> MvoInit, imu |-> ImuInit]
  /\ nunk = [s \in Sessions |-> << >>]
  /\ nupd = 0
  /\ buf = << >>
  /\ perr = "none"
  /\ kind = "raw"
  /\ appended = << >>
  /\ nappend = 0
  /\ nfix = 0
  /\ lastop = "init"
  /\ prelen = 0
  /\ fdata = << >>
  /\ fd = FlightDefaults
  /\ fdone = TRUE

SpecPacket == InitPacket /\ [][PacketNext]_vars

SpecFlight == InitFlight /\ [][FlightNext]_vars

SpecLog == InitLog /\ [][LogNext]_vars

\* ------------------------------------------------------------------------
\* Properties of Packet (checked under SpecPacket)
\* ------------------------------------------------------------------------
\* C1: a packet built from a command id, filled with add_* calls and
\* framed by one fixup call gives back exactly the appended bytes from
\* get_data.
C1_RoundTrip ==
  (kind = "cmd" /\ nfix = 1 /\ lastop = "fixup") => get_data(buf) = appended

\* C2: no Packet operation (construction, add_byte, add_int16, add_time,
\* fixup) ever raises, whatever the buffer and the sequence number.
C2_NeverFails == perr = "none"

\* C3: after a fixup call on a buffer whose first byte is the start-of-packet
\* marker, byte 3 is crc8 of bytes [0,3) and the last two bytes are the
\* little-endian crc16 of all the bytes before them.
C3_Checksums ==
  (lastop = "fixup" /\ Len(buf) > 0 /\ At(buf, 0) = START_OF_PACKET) =>
    /\ Len(buf) >= 6
    /\ At(buf, 3) = crc8(SubSeq(buf, 1, 3))
    /\ << buf[Len(buf) - 1], buf[Len(buf)] >>
         = le16(crc16(SubSeq(buf, 1, Len(buf) - 2)))

\* C4: after a fixup call that returned on a buffer starting with the
\* marker, the little-endian 16-bit value of bytes [1,3) is (length before
\* fixup + 2) shifted left by 3 and cut to 16 bits; its low 3 bits are zero
\* and bits 3-15 give the length back while the length fits 13 bits.
C4_LengthField ==
  (lastop = "fixup" /\ perr = "none" /\ Len(buf) > 0
     /\ At(buf, 0) = START_OF_PACKET) =>
    LET v == At(buf, 1) + 256 * At(buf, 2)
        l == prelen + 2
    IN  /\ v = (l * 8) % 65536
        /\ v % 8 = 0
        /\ (l < 8192 => v \div 8 = l)

\* ------------------------------------------------------------------------
\* Properties of FlightData (checked under SpecFlight)
\* ------------------------------------------------------------------------
\* the payload with bit k of the byte at offset o inverted
FlipBit(d, o, k) ==
  [d EXCEPT ![o + 1] = IF Bit(d[o + 1], k) = 1 THEN d[o + 1] - 2 ^ k
                       ELSE d[o + 1] + 2 ^ k]

Flag(x) == x \in {0, 1}

\* C9: for a payload of at least 24 bytes every flag is 0 or 1 and the
\* flags of a byte, weighted by their bit positions, rebuild that byte up
\* to its unused bits (bit 6 of byte 10, bits 3-7 of byte 22, bits 1-7 of
\* byte 23); the six full-byte fields are the bytes 11, 12, 18, 19, 20, 21;
\* inverting an unused bit or dropping the bytes past offset 23 changes no
\* decoded field.
C9_BitTable ==
  (fdone /\ Len(fdata) >= 24) =>
    /\ \A x \in { fd.imu_state, fd.pressure_state, fd.down_visual_state,
                  fd.power_state, fd.battery_state, fd.gravity_state,
                  fd.wind_state, fd.em_sky, fd.em_ground, fd.em_open,
                  fd.drone_hover, fd.outage_recording, fd.battery_low,
                  fd.battery_lower, fd.factory_mode, fd.front_in,
                  fd.front_out, fd.front_lsc, fd.temperature_height } :
         Flag(x)
    /\ At(fdata, 10)
         - ( fd.imu_state + 2 * fd.pressure_state + 4 * fd.down_visual_state
             + 8 * fd.power_state + 16 * fd.battery_state
             + 32 * fd.gravity_state + 128 * fd.wind_state ) \in {0, 64}
    /\ At(fdata, 17)
         = fd.em_sky + 2 * fd.em_ground + 4 * fd.em_open + 8 * fd.drone_hover
           + 16 * fd.outage_recording + 32 * fd.battery_low
           + 64 * fd.battery_lower + 128 * fd.factory_mode
    /\ At(fdata, 22) - (fd.front_in + 2 * fd.front_out + 4 * fd.front_lsc)
         \in { 8 * m : m \in 0..31 }
    /\ At(fdata, 23) - fd.temperature_height \in { 2 * m : m \in 0..127 }
    /\ fd.imu_calibration_state = At(fdata, 11)
    /\ fd.battery_percentage = At(fdata, 12)
    /\ fd.fly_mode = At(fdata, 18)
    /\ fd.throw_fly_timer = At(fdata, 19)
    /\ fd.camera_state = At(fdata, 20)
    /\ fd.electrical_machinery_state = At(fdata, 21)
    /\ FlightData(FlipBit(fdata, 10, 6)) = fd
    /\ \A k \in 3..7 : FlightData(FlipBit(fdata, 22, k)) = fd
    /\ \A k \in 1..7 : FlightData(FlipBit(fdata, 23, k)) = fd
    /\ FlightData(SubSeq(fdata, 1, 24)) = fd

\* C9 witness: a decoded payload of 24 bytes or more with wind_state set
\* from bit 7 while bit 6 of byte 10 is clear, and the top flags of bytes 17
\* and 22 set.
C9_Witness ==
  /\ fdone
  /\ Len(fdata) >= 24
  /\ Bit(At(fdata, 10), 6) = 0
  /\ fd.wind_state = 1
  /\ fd.factory_mode = 1
  /\ fd.front_lsc = 1

\* ------------------------------------------------------------------------
\* Properties of LogData (checked under SpecLog)
\* ------------------------------------------------------------------------
\* C5: update never comes back to a scan position it has already
\* processed, so it ends on the call that started it.
C5_NoRevisit == pc = "scan" => pos \notin visited

Occurrences(log, id) == Cardinality({i \in 1..Len(log) : log[i] = id})

\* C7: a loop iteration on a record whose header reads succeed and whose id
\* is neither 29 nor 2048 does not end the update, and no session's log
\* ever holds the unhandled-id diagnostic for the same id twice.
C7_UnknownOnce ==
  [][ /\ ( /\ pc = "scan"
           /\ pos < Len(sdata) - 2
           /\ ReadRecord(sdata, pos).err = "none"
           /\ ReadRecord(sdata, pos).id \notin {ID_NEW_MVO_FEEDBACK, ID_IMU_ATTI} )
         => (pc' = "scan" /\ result' = "none")
      /\ \A s \in Sessions : \A i \in 1..Len(logs'[s]) :
           Occurrences(logs'[s], logs'[s][i]) = 1 ]_vars

\* C7 witness: a session that has processed two records of one unknown id
\* and holds its diagnostic once.
C7_Witness ==
  \E s \in Sessions : \E id \in DOMAIN nunk[s] :
    nunk[s][id] = 2 /\ Occurrences(logs[s], id) = 1

\* C8: a session that has processed a record of an unknown id has received
\* the diagnostic for that id, whatever the other session did before.
C8_InstanceOwned ==
  \A s \in Sessions : \A id \in DOMAIN nunk[s] : Occurrences(logs[s], id) >= 1

\* the records the scan of d passes from position p on, in scan order, up to
\* (not including) position stop or the end of the loop
RECURSIVE Walk(_, _, _, _)
Walk(d, p, stop, fuel) ==
  IF fuel = 0 \/ p = stop \/ p >= Len(d) - 2 THEN << >>
  ELSE LET r == ReadRecord(d, p)
       IN  IF r.err # "none" THEN << >>
           ELSE << r >> \o Walk(d, p + r.length, stop, fuel - 1)

\* the payloads of the records of one id among recs, in order
PayloadsOf(recs, id) ==
  LET sel == SelectSeq(recs, LAMBDA r : r.id = id)
  IN  [i \in 1..Len(sel) |-> sel[i].payload]

Word(pl, o) == pl[o + 1] + 256 * pl[o + 2]

Signed(u) == IF u >= 32768 THEN u - 65536 ELSE u

Float(pl, o) == << Word(pl, o), Word(pl, o + 2) >>

Floats3(pl, o) == << Float(pl, o), Float(pl, o + 4), Float(pl, o + 8) >>

\* the motion-feedback fields a payload decodes to
DecodedMvo(pl, c) ==
  [ count |-> c,
    vel |-> << Signed(Word(pl, 2)), Signed(Word(pl, 4)), Signed(Word(pl, 6)) >>,
    pos |-> Floats3(pl, 8) ]

\* the attitude fields a payload decodes to
DecodedImu(pl, c) ==
  [ count |-> c,
    acc |-> Floats3(pl, 20),
    gyro |-> Floats3(pl, 32),
    q |-> << Float(pl, 48), Float(pl, 52), Float(pl, 56), Float(pl, 60) >>,
    vg |-> Floats3(pl, 76) ]

\* the update that ended at pos raised inside the sub-decoder of this id
FailedIn(id) ==
  /\ result = "StructError"
  /\ pos < Len(sdata) - 2
  /\ ReadRecord(sdata, pos).err = "none"
  /\ ReadRecord(sdata, pos).id = id

\* C10: when update has ended, normally or by an exception at position
\* pos, the session's counter is one more than at entry and each sub-decoder
\* holds the decode of the last record of its type among the records
\* scanned before pos (all of them on a normal return), or its state at
\* entry when there is none; the record at which a sub-decoder itself
\* raised is left aside.
C10_NoRollback ==
  (pc = "idle" /\ result # "none") =>
    LET before == Walk(sdata, 0, pos, Len(sdata) + 1)
        mp == PayloadsOf(before, ID_NEW_MVO_FEEDBACK)
        ip == PayloadsOf(before, ID_IMU_ATTI)
    IN  /\ count[cur] = pre.count + 1
        /\ ~FailedIn(ID_NEW_MVO_FEEDBACK) =>
             mvo[cur] = IF Len(mp) = 0 THEN pre.mvo
                        ELSE DecodedMvo(mp[Len(mp)], count[cur])
        /\ ~FailedIn(ID_IMU_ATTI) =>
             imu[cur] = IF Len(ip) = 0 THEN pre.imu
                        ELSE DecodedImu(ip[Len(ip)], count[cur])

\* C10 witness: an update that raised at a position after a motion-feedback
\* record, whose decode the session still holds.
C10_Witness ==
  /\ pc = "idle"
  /\ result \in {"Corrupt", "StructError", "IndexError"}
  /\ pos > 0
  /\ pos < Len(sdata) - 2
  /\ mvo[cur].count = count[cur]
  /\ mvo[cur] # pre.mvo
====
